---- MODULE Spec2Model ----
(***************************************************************************)
(* A model of the rule-based extraction pipeline of the medical report     *)
(* summarizer (src/models/summarizer.py) and of its web endpoint           *)
(* (src/app.py).  A text is a TLA+ string; a character is a string of      *)
(* length one.  Python's re module is modelled by a backtracking matcher   *)
(* over pattern terms, so that every pattern of the source is written      *)
(* here term by term and matched with Python's priorities (leftmost        *)
(* start, alternatives in order, greedy before lazy).                      *)
(***************************************************************************)
EXTENDS Integers, Sequences, FiniteSets, TLC

VARIABLES
  heap,      \* the lists, dicts and dataclass objects created so far, by address
  frame,     \* the activation of summarize_report on the shared summarizer
  returned,  \* the calls that have returned: their text and their summary
  trace,     \* the statements the running (or last) call has executed
  calls,     \* the number of calls of summarize_report so far
  input,     \* the argument of a direct call of one of the functions
  output     \* and what that call produced

vars == <<heap, frame, returned, trace, calls, input, output>>

(***************************************************************************)
(* Characters and the str methods the source uses.                         *)
(***************************************************************************)
CharAt(s, i) == SubSeq(s, i, i)

LowerMap ==
  [c \in {"A","B","C","D","E","F","G","H","I","J","K","L","M",
          "N","O","P","Q","R","S","T","U","V","W","X","Y","Z"} |->
     CASE c = "A" -> "a" [] c = "B" -> "b" [] c = "C" -> "c" [] c = "D" -> "d"
       [] c = "E" -> "e" [] c = "F" -> "f" [] c = "G" -> "g" [] c = "H" -> "h"
       [] c = "I" -> "i" [] c = "J" -> "j" [] c = "K" -> "k" [] c = "L" -> "l"
       [] c = "M" -> "m" [] c = "N" -> "n" [] c = "O" -> "o" [] c = "P" -> "p"
       [] c = "Q" -> "q" [] c = "R" -> "r" [] c = "S" -> "s" [] c = "T" -> "t"
       [] c = "U" -> "u" [] c = "V" -> "v" [] c = "W" -> "w" [] c = "X" -> "x"
       [] c = "Y" -> "y" [] c = "Z" -> "z"]

UpperLetters == DOMAIN LowerMap
LowerLetters == {LowerMap[c] : c \in UpperLetters}
Letters == UpperLetters \cup LowerLetters
Digits == {"0","1","2","3","4","5","6","7","8","9"}
\* What \s matches and what str.strip() removes.
Whitespace == {" ", "\n", "\t", "\r", "\f"}

UpperMap == [c \in LowerLetters |-> CHOOSE u \in UpperLetters : LowerMap[u] = c]

LowerChar(c) == IF c \in UpperLetters THEN LowerMap[c] ELSE c
UpperChar(c) == IF c \in LowerLetters THEN UpperMap[c] ELSE c

\* str.lower()
RECURSIVE LowerRange(_, _, _)
LowerRange(s, lo, hi) ==
  IF lo > hi THEN ""
  ELSE IF lo = hi THEN LowerChar(CharAt(s, lo))
  ELSE LET mid == (lo + hi) \div 2
       IN LowerRange(s, lo, mid) \o LowerRange(s, mid + 1, hi)
lower(s) == LowerRange(s, 1, Len(s))

\* str.title(): a letter that follows a letter is lowered, any other
\* letter is raised.
RECURSIVE TitleRange(_, _, _)
TitleRange(s, lo, hi) ==
  IF lo > hi THEN ""
  ELSE IF lo = hi
       THEN (IF lo > 1 /\ CharAt(s, lo - 1) \in Letters
             THEN LowerChar(CharAt(s, lo))
             ELSE UpperChar(CharAt(s, lo)))
  ELSE LET mid == (lo + hi) \div 2
       IN TitleRange(s, lo, mid) \o TitleRange(s, mid + 1, hi)
title(s) == TitleRange(s, 1, Len(s))

\* The index of the first character of s that is no whitespace, and
\* Len(s) + 1 when there is none.
LeftEdge(s) ==
  CHOOSE q \in 1..(Len(s) + 1) :
    /\ q = Len(s) + 1 \/ CharAt(s, q) \notin Whitespace
    /\ \A i \in 1..(q - 1) : CharAt(s, i) \in Whitespace
\* The index of the last character of s that is no whitespace, and 0 when
\* there is none.
RightEdge(s) ==
  CHOOSE q \in 0..Len(s) :
    /\ q = 0 \/ CharAt(s, q) \notin Whitespace
    /\ \A i \in (q + 1)..Len(s) : CharAt(s, i) \in Whitespace

\* str.strip()
strip(s) == SubSeq(s, LeftEdge(s), RightEdge(s))

\* `sub in s`
contains(sub, s) ==
  \E i \in 1..(Len(s) - Len(sub) + 1) : SubSeq(s, i, i + Len(sub) - 1) = sub

(***************************************************************************)
(* Python's re: pattern terms and the backtracking matcher.  A pattern is  *)
(* a sequence of terms.                                                    *)
(***************************************************************************)
\* A literal run of the pattern.
Lit(s) == <<[t |-> "lit", s |-> s, l |-> lower(s), n |-> Len(s)]>>
\* A character class, and the dot.
Cls(S) == [t |-> "cls", S |-> S, L |-> {LowerChar(x) : x \in S}]
Dot == [t |-> "dot"]
\* a|b|...
Alt(as) == <<[t |-> "alt", a |-> as]>>
\* A one-character term c repeated min times or more, greedy or lazy.
Rep1(c, min, greedy) == <<[t |-> "rep1", c |-> c, min |-> min, greedy |-> greedy]>>
\* A pattern r repeated at most max times (max < 0: without limit), greedy.
Rep(r, max) == <<[t |-> "rep", r |-> r, max |-> max]>>
\* (r) as group k
Grp(k, r) == <<[t |-> "open", k |-> k]>> \o r \o <<[t |-> "close", k |-> k]>>
\* (?=r)
Ahead(r) == <<[t |-> "ahead", r |-> r]>>
Opt(r) == Rep(r, 1)
Star(c) == Rep1(c, 0, TRUE)
Plus(c) == Rep1(c, 1, TRUE)

\* The flags of a call: re.IGNORECASE and re.DOTALL.
Flags(ic, dotall) == [ic |-> ic, dotall |-> dotall]

NoCaps == [s1 |-> 0, e1 |-> 0, s2 |-> 0, e2 |-> 0]
NoMatch == [ok |-> FALSE, start |-> 0, end |-> 0, caps |-> NoCaps]

\* Whether the one-character term n matches the character c.
CharOk(n, c, fl) ==
  IF n.t = "cls" THEN (IF fl.ic THEN LowerChar(c) \in n.L ELSE c \in n.S)
  ELSE fl.dotall \/ c # "\n"

\* Whether the literal term n stands in t at position p.
LitOk(n, t, p, fl) ==
  /\ p + n.n - 1 <= Len(t)
  /\ IF fl.ic THEN lower(SubSeq(t, p, p + n.n - 1)) = n.l
     ELSE SubSeq(t, p, p + n.n - 1) = n.s

\* The position after the longest run of characters of the term n from p.
RunEnd(n, t, p, fl) ==
  CHOOSE q \in p..(Len(t) + 1) :
    /\ q = Len(t) + 1 \/ ~CharOk(n, CharAt(t, q), fl)
    /\ \A i \in p..(q - 1) : CharOk(n, CharAt(t, i), fl)

SetCap(caps, k, open, p) ==
  CASE k = 1 /\ open -> [caps EXCEPT !.s1 = p]
    [] k = 1 /\ ~open -> [caps EXCEPT !.e1 = p]
    [] k = 2 /\ open -> [caps EXCEPT !.s2 = p]
    [] k = 2 /\ ~open -> [caps EXCEPT !.e2 = p]

\* r when it is a match, and otherwise alt
OrElse(r, alt) == IF r.ok THEN r ELSE alt
\* The match r with the position it starts at
StartingAt(r, p) == IF r.ok THEN [r EXCEPT !.start = p] ELSE NoMatch

\* The first way, in the engine's order of preference, in which the terms
\* cont match t from position p on; end is the position after the match.
\* MatchTerm matches the term n and then the terms rest.  MatchUp and
\* MatchDown try the positions lo..hi for the rest of the pattern after a
\* lazy and after a greedy repetition of a one-character term.
RECURSIVE Match(_, _, _, _, _)
RECURSIVE MatchTerm(_, _, _, _, _, _)
RECURSIVE MatchAlt(_, _, _, _, _, _, _)
RECURSIVE MatchUp(_, _, _, _, _, _)
RECURSIVE MatchDown(_, _, _, _, _, _)
Match(t, fl, cont, p, caps) ==
  IF cont = <<>> THEN [ok |-> TRUE, start |-> 0, end |-> p, caps |-> caps]
  ELSE MatchTerm(t, fl, Head(cont), Tail(cont), p, caps)
MatchTerm(t, fl, n, rest, p, caps) ==
  CASE n.t = "lit" ->
         IF LitOk(n, t, p, fl) THEN Match(t, fl, rest, p + n.n, caps)
         ELSE NoMatch
    [] n.t \in {"cls", "dot"} ->
         IF p <= Len(t) /\ CharOk(n, CharAt(t, p), fl)
         THEN Match(t, fl, rest, p + 1, caps)
         ELSE NoMatch
    [] n.t = "open" -> Match(t, fl, rest, p, SetCap(caps, n.k, TRUE, p))
    [] n.t = "close" -> Match(t, fl, rest, p, SetCap(caps, n.k, FALSE, p))
    [] n.t = "alt" -> MatchAlt(t, fl, n.a, 1, rest, p, caps)
    [] n.t = "ahead" ->
         IF Match(t, fl, n.r, p, caps).ok
         THEN Match(t, fl, rest, p, caps)
         ELSE NoMatch
    [] n.t = "rep1" ->
         IF n.greedy
         THEN MatchDown(t, fl, rest, caps, p + n.min, RunEnd(n.c, t, p, fl))
         ELSE MatchUp(t, fl, rest, caps, p + n.min, RunEnd(n.c, t, p, fl))
    [] n.t = "rep" ->
         OrElse(IF n.max = 0 THEN NoMatch
                ELSE Match(t, fl,
                       n.r \o Rep(n.r, IF n.max < 0 THEN -1 ELSE n.max - 1) \o rest,
                       p, caps),
                Match(t, fl, rest, p, caps))
MatchAlt(t, fl, as, i, rest, p, caps) ==
  IF i > Len(as) THEN NoMatch
  ELSE OrElse(Match(t, fl, as[i] \o rest, p, caps),
              MatchAlt(t, fl, as, i + 1, rest, p, caps))
MatchUp(t, fl, rest, caps, lo, hi) ==
  IF lo > hi THEN NoMatch
  ELSE IF lo = hi THEN Match(t, fl, rest, lo, caps)
  ELSE OrElse(MatchUp(t, fl, rest, caps, lo, (lo + hi) \div 2),
              MatchUp(t, fl, rest, caps, (lo + hi) \div 2 + 1, hi))
MatchDown(t, fl, rest, caps, lo, hi) ==
  IF lo > hi THEN NoMatch
  ELSE IF lo = hi THEN Match(t, fl, rest, lo, caps)
  ELSE OrElse(MatchDown(t, fl, rest, caps, (lo + hi) \div 2 + 1, hi),
              MatchDown(t, fl, rest, caps, lo, (lo + hi) \div 2))

\* The leftmost match that starts in lo..hi.
RECURSIVE SearchIn(_, _, _, _, _)
SearchIn(t, fl, pat, lo, hi) ==
  IF lo > hi THEN NoMatch
  ELSE IF lo = hi THEN StartingAt(Match(t, fl, pat, lo, NoCaps), lo)
  ELSE OrElse(SearchIn(t, fl, pat, lo, (lo + hi) \div 2),
              SearchIn(t, fl, pat, (lo + hi) \div 2 + 1, hi))
\* re.search(pat, t, flags)
search(pat, t, fl) == SearchIn(t, fl, pat, 1, Len(t) + 1)
\* re.match(pat, t, flags), and a pattern that begins with ^
match(pat, t, fl) == SearchIn(t, fl, pat, 1, 1)

\* match.group(k)
group(t, m, k) ==
  IF k = 1 THEN SubSeq(t, m.caps.s1, m.caps.e1 - 1)
  ELSE SubSeq(t, m.caps.s2, m.caps.e2 - 1)

\* Every match of pat in t from position from on, left to right, none
\* overlapping another: re.finditer.
RECURSIVE MatchesFrom(_, _, _, _)
MatchesFrom(t, fl, pat, from) ==
  LET \* the match m and the matches after it
      Onward(m) ==
        IF ~m.ok THEN <<>>
        ELSE <<m>> \o MatchesFrom(t, fl, pat,
                                  IF m.end > m.start THEN m.end ELSE m.end + 1)
  IN Onward(SearchIn(t, fl, pat, from, Len(t) + 1))
finditer(pat, t, fl) == MatchesFrom(t, fl, pat, 1)

\* re.findall(pat, t) for a pattern with one group: each match's group 1.
findall(pat, t, fl) ==
  LET Groups(ms) == [i \in 1..Len(ms) |-> group(t, ms[i], 1)]
  IN Groups(finditer(pat, t, fl))

\* re.split(pat, t) for a pattern without groups: the pieces between the
\* matches.
split(pat, t, fl) ==
  LET Between(ms) ==
        [i \in 1..(Len(ms) + 1) |->
           SubSeq(t, IF i = 1 THEN 1 ELSE ms[i - 1].end,
                     IF i = Len(ms) + 1 THEN Len(t) ELSE ms[i].start - 1)]
  IN Between(finditer(pat, t, fl))

\* str.split(sep): the pieces between the occurrences of sep.
SplitChar(s, sep) == split(Lit(sep), s, Flags(FALSE, FALSE))

\* list[:n]
Take(l, n) == SubSeq(l, 1, IF Len(l) < n THEN Len(l) ELSE n)

\* The items of l that satisfy Keep, in order.
RECURSIVE FilterRange(_, _, _, _)
FilterRange(l, keep, lo, hi) ==
  IF lo > hi THEN <<>>
  ELSE IF lo = hi THEN (IF lo \in keep THEN <<l[lo]>> ELSE <<>>)
  ELSE FilterRange(l, keep, lo, (lo + hi) \div 2)
         \o FilterRange(l, keep, (lo + hi) \div 2 + 1, hi)
\* The items of l whose index is in keep, in order.
Select(l, keep) == FilterRange(l, keep, 1, Len(l))

\* The concatenation of the lists ls[1], ls[2], ...
RECURSIVE FlatRange(_, _, _)
FlatRange(ls, lo, hi) ==
  IF lo > hi THEN <<>>
  ELSE IF lo = hi THEN ls[lo]
  ELSE FlatRange(ls, lo, (lo + hi) \div 2) \o FlatRange(ls, (lo + hi) \div 2 + 1, hi)
Flatten(ls) == FlatRange(ls, 1, Len(ls))

(***************************************************************************)
(* The character classes and flags of the source's patterns.  A character  *)
(* outside ASCII is written <U+XXXX>; no text of the model holds one.      *)
(***************************************************************************)
ColonSpace == Cls({":"} \cup Whitespace)      \* [:\s]
Space == Cls(Whitespace)                      \* \s
Digit == Cls(Digits)                          \* \d
Alpha == Cls(Letters)                         \* [A-Za-z]
IC == Flags(TRUE, FALSE)                      \* re.IGNORECASE
ICDotAll == Flags(TRUE, TRUE)                 \* re.IGNORECASE | re.DOTALL
Plain == Flags(FALSE, FALSE)                  \* no flags

\* The result of the first pattern of the list that matches: the loop
\* `for pattern in patterns: match = re.search(...); if match: ... break`.
RECURSIVE FirstMatchFrom(_, _, _, _)
FirstMatchFrom(patterns, text, fl, i) ==
  IF i > Len(patterns) THEN NoMatch
  ELSE OrElse(search(patterns[i], text, fl),
              FirstMatchFrom(patterns, text, fl, i + 1))
\* A loop without the break: the last pattern of the list that matches
RECURSIVE LastMatchFrom(_, _, _, _)
LastMatchFrom(patterns, text, fl, i) ==
  IF i < 1 THEN NoMatch
  ELSE OrElse(search(patterns[i], text, fl),
              LastMatchFrom(patterns, text, fl, i - 1))
LastMatch(patterns, text, fl) == LastMatchFrom(patterns, text, fl, Len(patterns))
FirstMatch(patterns, text, fl) == FirstMatchFrom(patterns, text, fl, 1)

(***************************************************************************)
(* extract_patient_info                                                    *)
(***************************************************************************)
NameEnd == Alt(<<Lit("\n"), Lit("Age"), Lit("DOB"), Lit("MRN")>>)
NameRun == Grp(1, Rep1(Cls(Letters \cup Whitespace \cup {","}), 1, FALSE))
name_patterns ==
  << Lit("Patient") \o Plus(ColonSpace) \o NameRun \o NameEnd,
     Lit("Name") \o Plus(ColonSpace) \o NameRun \o NameEnd >>
age_pattern == Lit("Age") \o Plus(ColonSpace) \o Grp(1, Plus(Digit))
\* A gender pattern that takes any word after the heading
AnyWordGender ==
  Alt(<<Lit("Gender"), Lit("Sex")>>) \o Plus(ColonSpace) \o Grp(1, Plus(Alpha))
gender_pattern ==
  Alt(<<Lit("Gender"), Lit("Sex")>>) \o Plus(ColonSpace)
    \o Grp(1, Alt(<<Lit("Male"), Lit("Female"), Lit("M"), Lit("F")>>))
mrn_pattern ==
  Lit("MRN") \o Plus(ColonSpace) \o Grp(1, Plus(Cls(UpperLetters \cup Digits)))

\* PatientInfo(): the dataclass defaults
PatientInfo == [name |-> "", age |-> "", gender |-> "", mrn |-> "", dob |-> ""]

\* `if m: field = m.group(1)`: group 1 of the match m, or the field's default
GroupOr(text, m, default) == IF m.ok THEN group(text, m, 1) ELSE default
\* `if m: field = m.group(1).strip()`
StrippedGroupOr(text, m, default) ==
  IF m.ok THEN strip(group(text, m, 1)) ELSE default

\* An extractor that also reads the date of birth
WithBirthDate(text) ==
  [PatientInfo EXCEPT
     !.name = StrippedGroupOr(text, FirstMatch(name_patterns, text, IC), @),
     !.age = GroupOr(text, search(age_pattern, text, IC), @),
     !.gender = GroupOr(text, search(gender_pattern, text, IC), @),
     !.mrn = GroupOr(text, search(mrn_pattern, text, IC), @),
     !.dob = GroupOr(text, search(Lit("DOB") \o Plus(ColonSpace)
                                    \o Grp(1, Plus(Cls(Digits \cup {"/"}))),
                                  text, IC), @)]
extract_patient_info(text) ==
  [PatientInfo EXCEPT
     !.name = StrippedGroupOr(text, FirstMatch(name_patterns, text, IC), @),
     !.age = GroupOr(text, search(age_pattern, text, IC), @),
     !.gender = GroupOr(text, search(gender_pattern, text, IC), @),
     !.mrn = GroupOr(text, search(mrn_pattern, text, IC), @)]

(***************************************************************************)
(* extract_chief_complaint                                                 *)
(***************************************************************************)
Body == Grp(1, Rep1(Dot, 0, FALSE))                \* (.*?)
chief_complaint_patterns ==
  << Lit("Chief Complaint") \o Plus(ColonSpace) \o Body
       \o Alt(<<Lit("\n\n"), Lit("History of Present")>>),
     Lit("Presenting Problem") \o Plus(ColonSpace) \o Body
       \o Alt(<<Lit("\n\n"), Lit("History")>>),
     Lit("CC") \o Plus(ColonSpace) \o Body
       \o Alt(<<Lit("\n\n"), Lit("HPI")>>) >>

extract_chief_complaint(text) ==
  StrippedGroupOr(text, FirstMatch(chief_complaint_patterns, text, ICDotAll), "")

(***************************************************************************)
(* clean_diagnosis_text and extract_diagnoses                              *)
(***************************************************************************)
Bullet == Cls({"-", "<U+00E2>", "<U+20AC>", "<U+00A2>"})
Dash == Cls({"-", "<U+00E2>", "<U+20AC>", "<U+201C>"})
Numbering == Plus(Digit) \o Lit(".")          \* \d+\.
\* \n\s*\d+\.|\n\s*[-...]|\n(?=\d+\.)
item_delimiter ==
  Alt(<< Lit("\n") \o Star(Space) \o Numbering,
         Lit("\n") \o Star(Space) \o <<Bullet>>,
         Lit("\n") \o Ahead(Numbering) >>)
leading_number == Numbering \o Star(Space)    \* ^\d+\.\s*
leading_bullet == <<Bullet>> \o Star(Space)  \* ^[-...]\s*
\* [-...]\s*(?:stable|controlled|improved|management|adjustment)
status_clause ==
  <<Dash>> \o Star(Space)
    \o Alt(<<Lit("stable"), Lit("controlled"), Lit("improved"),
             Lit("management"), Lit("adjustment")>>)

exclude_words ==
  << "adjustment", "management", "follow-up", "monitoring", "continued",
     "stable", "controlled", "improved", "resolved", "plan", "care",
     "treatment", "therapy", "medication", "drug", "well-controlled" >>
medical_indicators ==
  << "syndrome", "disease", "disorder", "condition", "emia", "itis",
     "osis", "pathy", "cancer", "tumor", "failure", "infarction",
     "pneumonia", "diabetes", "hypertension", "coronary", "acute" >>

\* any(w in s for w in words)
AnyIn(words, s) == \E i \in 1..Len(words) : contains(words[i], s)

\* re.sub(pat, '', s) for a pattern anchored at the start of s
RemovePrefix(pat, s) ==
  LET After(m) == IF m.ok THEN SubSeq(s, m.end, Len(s)) ELSE s
  IN After(match(pat, s, Plain))

MinItemLen == 5
MinPartLen == 3

\* A test that looks at the exclusion vocabulary alone
HasExcludeWord(item_lower) == AnyIn(exclude_words, item_lower)
\* The test below "Skip if it's just an action/management phrase"
IsManagementPhrase(item_lower) ==
  AnyIn(exclude_words, item_lower) /\ ~AnyIn(medical_indicators, item_lower)

\* The text of an item with its numbering and bullet removed
Unmarked(item) == RemovePrefix(leading_bullet, RemovePrefix(leading_number, item))

\* The part of an item before its first status clause
DiagnosisPart(item) == strip(split(status_clause, item, Plain)[1])

\* One pass of the loop over the items: the statement that ends it (the
\* `continue` of the length test or of the exclusion test, the append, or
\* the end of the body without an append) and the text it has then.
CleanItem(raw) ==
  LET \* `if diagnosis_part and len(diagnosis_part) > 3: diagnoses.append(...)`
      KeepPart(diagnosis_part) ==
        [step |-> IF diagnosis_part # "" /\ Len(diagnosis_part) > MinPartLen
                  THEN "append" ELSE "end",
         text |-> diagnosis_part]
      \* from the exclusion test on, for an item without its markers
      CleanUnmarked(item) ==
        IF IsManagementPhrase(lower(item))
        THEN [step |-> "continue_excluded", text |-> item]
        ELSE KeepPart(DiagnosisPart(item))
      \* after item = item.strip()
      CleanStripped(item) ==
        IF item = "" \/ Len(item) < MinItemLen
        THEN [step |-> "continue_short", text |-> item]
        ELSE CleanUnmarked(Unmarked(item))
  IN CleanStripped(strip(raw))

DiagnosisItems(text) == split(item_delimiter, text, Plain)

\* What the passes a have appended, in order
Appended(a) ==
  Flatten([i \in 1..Len(a) |->
             IF a[i].step = "append" THEN <<a[i].text>> ELSE <<>>])
\* The loop over the items, pass by pass
CleanPasses(text) ==
  LET Passes(items) == [i \in 1..Len(items) |-> CleanItem(items[i])]
  IN Passes(DiagnosisItems(text))
clean_diagnosis_text(text) == Appended(CleanPasses(text))

diagnosis_patterns ==
  << Opt(Lit("Primary") \o Plus(Space)) \o Lit("Diagnosis")
       \o Star(Cls({"e", "s"})) \o Plus(ColonSpace) \o Body
       \o Alt(<<Lit("\n\n"), Lit("Plan"), Lit("Medications"), Lit("Treatment")>>),
     Opt(Lit("Final") \o Plus(Space)) \o Lit("Impression")
       \o Plus(ColonSpace) \o Body
       \o Alt(<<Lit("\n\n"), Lit("Plan"), Lit("Recommendations")>>),
     Lit("Assessment") \o Plus(ColonSpace) \o Body
       \o Alt(<<Lit("\n\n"), Lit("Plan"), Lit("Treatment")>>),
     Lit("ICD") \o Star(ColonSpace) \o Alt(<<Lit("10"), Lit("9")>>)
       \o Plus(ColonSpace) \o Body
       \o Alt(<<Lit("\n\n"), Lit("Plan")>>) >>

MaxDiagnoses == 10

\* An extract_diagnoses that returns all it has collected
UncappedDiagnoses(diagnoses) == diagnoses

\* What extract_diagnoses has collected before the final slice
CollectedDiagnoses(text) ==
  LET Section(m) ==
        IF m.ok THEN clean_diagnosis_text(strip(group(text, m, 1))) ELSE <<>>
  IN Section(FirstMatch(diagnosis_patterns, text, ICDotAll))

DiagnosisCap(diagnoses) == Take(diagnoses, MaxDiagnoses)

extract_diagnoses(text) == DiagnosisCap(CollectedDiagnoses(text))

(***************************************************************************)
(* extract_medications                                                     *)
(***************************************************************************)
SectionEnd == Alt(<<Lit("\n\n"), Lit("Allergies"), Lit("Procedures")>>)
medication_patterns ==
  << Lit("Medication") \o Opt(Lit("s")) \o Plus(ColonSpace) \o Body \o SectionEnd,
     Lit("Current Medications") \o Plus(ColonSpace) \o Body \o SectionEnd,
     Lit("Rx") \o Plus(ColonSpace) \o Body \o SectionEnd >>
\* ([A-Za-z]+(?:\s+[A-Za-z]+)*)\s+\d+(?:mg|mcg|g)
dosage_pattern ==
  Grp(1, Plus(Alpha) \o Rep(Plus(Space) \o Plus(Alpha), -1))
    \o Plus(Space) \o Plus(Digit) \o Alt(<<Lit("mg"), Lit("mcg"), Lit("g")>>)

MaxMedications == 15

\* Lines that go through the cleaning of the diagnosis candidates: markers
\* removed, and short ones dropped
FilteredMedicationLines(med_text) ==
  LET Kept(lines) ==
        Select(lines, {i \in 1..Len(lines) : Len(lines[i]) >= MinItemLen})
      Bare(lines) == [i \in 1..Len(lines) |-> Unmarked(strip(lines[i]))]
  IN Kept(Bare(SplitChar(med_text, "\n")))
\* The lines the loop over med_text.split('\n') appends
MedicationLines(med_text) ==
  LET \* `if line and not re.match(r'^\d+\.', line)`
      Kept(lines) ==
        Select(lines,
               {i \in 1..Len(lines) :
                  lines[i] # "" /\ ~match(Numbering, lines[i], Plain).ok})
      Stripped(lines) == [i \in 1..Len(lines) |-> strip(lines[i])]
  IN Kept(Stripped(SplitChar(med_text, "\n")))

\* What extract_medications has collected before the final slice
CollectedMedications(text) ==
  LET In(med_text) ==
        findall(dosage_pattern, med_text, Plain) \o MedicationLines(med_text)
      Section(m) == IF m.ok THEN In(group(text, m, 1)) ELSE <<>>
  IN Section(FirstMatch(medication_patterns, text, ICDotAll))

MedicationCap(medications) == Take(medications, MaxMedications)

extract_medications(text) == MedicationCap(CollectedMedications(text))

(***************************************************************************)
(* extract_vital_signs and extract_lab_results                             *)
(***************************************************************************)
Decimal == Plus(Digit) \o Opt(Lit(".")) \o Star(Digit)      \* \d+\.?\d*
bp_pattern ==
  Lit("BP") \o Plus(ColonSpace) \o Grp(1, Plus(Digit) \o Lit("/") \o Plus(Digit))
hr_pattern == Lit("HR") \o Plus(ColonSpace) \o Grp(1, Plus(Digit))
temp_pattern == Lit("Temp") \o Plus(ColonSpace) \o Grp(1, Decimal)
rr_pattern == Lit("RR") \o Plus(ColonSpace) \o Grp(1, Plus(Digit))
o2_pattern ==
  Lit("O2 Sat") \o Plus(ColonSpace) \o Grp(1, Plus(Digit) \o Lit("%"))

\* {}
EmptyDict == [k \in {} |-> ""]

\* One `if match: vitals[key] = match.group(1) + suffix`
VitalEntry(text, pattern, key, suffix) ==
  LET Entry(m) ==
        IF m.ok THEN key :> (group(text, m, 1) \o suffix) ELSE EmptyDict
  IN Entry(search(pattern, text, IC))

extract_vital_signs(text) ==
  VitalEntry(text, bp_pattern, "Blood Pressure", "")
    @@ VitalEntry(text, hr_pattern, "Heart Rate", " bpm")
    @@ VitalEntry(text, temp_pattern, "Temperature", "<U+00C2><U+00B0>F")
    @@ VitalEntry(text, rr_pattern, "Respiratory Rate", " /min")
    @@ VitalEntry(text, o2_pattern, "Oxygen Saturation", "")

LabPattern(names, value) ==
  Grp(1, Alt(names)) \o Plus(ColonSpace) \o Grp(2, value)
lab_patterns ==
  << LabPattern(<<Lit("Hemoglobin"), Lit("Hgb")>>, Decimal),
     LabPattern(<<Lit("WBC"), Lit("White Blood Cell")>>, Decimal),
     LabPattern(<<Lit("Glucose")>>, Plus(Digit)),
     LabPattern(<<Lit("Creatinine")>>, Decimal),
     LabPattern(<<Lit("BUN")>>, Plus(Digit)),
     LabPattern(<<Lit("Cholesterol")>>, Plus(Digit)) >>

\* The labs one pattern appends: f"{match.group(1)}: {match.group(2)}"
LabsOf(text, pattern) ==
  LET Lines(ms) ==
        [i \in 1..Len(ms) |->
           group(text, ms[i], 1) \o ": " \o group(text, ms[i], 2)]
  IN Lines(finditer(pattern, text, IC))

extract_lab_results(text) ==
  Flatten([i \in 1..Len(lab_patterns) |-> LabsOf(text, lab_patterns[i])])

(***************************************************************************)
(* int(str), as identify_critical_flags calls it.  CPython refuses a       *)
(* decimal string of more than 4300 digits (sys.int_info                   *)
(* .default_max_str_digits) with a ValueError, like a malformed one.       *)
(***************************************************************************)
IntMaxStrDigits == 4300

RECURSIVE Pow10(_)
Pow10(n) == IF n = 0 THEN 1 ELSE 10 * Pow10(n - 1)
\* The number the digits s[lo..hi] write
RECURSIVE DecimalValue(_, _, _)
DecimalValue(s, lo, hi) ==
  IF lo > hi THEN 0
  ELSE IF lo = hi THEN CHOOSE d \in 0..9 : CharAt("0123456789", d + 1) = CharAt(s, lo)
  ELSE DecimalValue(s, lo, (lo + hi) \div 2) * Pow10(hi - (lo + hi) \div 2)
         + DecimalValue(s, (lo + hi) \div 2 + 1, hi)

\* int()'s ValueError
ValueError == [ok |-> FALSE, value |-> 0]

\* int(s): the literal is stripped, may carry a sign, and is digits with
\* single underscores between them.
int(s) ==
  LET WellFormed(body) ==
        /\ Len(body) > 0
        /\ \A i \in 1..Len(body) : CharAt(body, i) \in Digits \cup {"_"}
        /\ CharAt(body, 1) # "_" /\ CharAt(body, Len(body)) # "_"
        /\ \A i \in 1..(Len(body) - 1) :
             ~(CharAt(body, i) = "_" /\ CharAt(body, i + 1) = "_")
      \* the digits of a literal, without its underscores
      DigitsOf(body) ==
        Flatten(Select([i \in 1..Len(body) |-> CharAt(body, i)],
                       {i \in 1..Len(body) : CharAt(body, i) # "_"}))
      OfDigits(sign, digits) ==
        IF Len(digits) > IntMaxStrDigits THEN ValueError
        ELSE [ok |-> TRUE, value |-> sign * DecimalValue(digits, 1, Len(digits))]
      OfBody(sign, body) ==
        IF WellFormed(body) THEN OfDigits(sign, DigitsOf(body)) ELSE ValueError
      OfLiteral(lit) ==
        OfBody(IF lit # "" /\ CharAt(lit, 1) = "-" THEN -1 ELSE 1,
               IF lit # "" /\ CharAt(lit, 1) \in {"+", "-"}
               THEN SubSeq(lit, 2, Len(lit)) ELSE lit)
  IN OfLiteral(strip(s))

(***************************************************************************)
(* identify_critical_flags                                                 *)
(***************************************************************************)
critical_terms ==
  << "critical", "urgent", "emergency", "acute", "severe",
     "chest pain", "shortness of breath", "stroke", "heart attack",
     "allergic reaction", "sepsis", "pneumonia" >>

\* The five characters and the space that open every flag of
\* src/models/summarizer.py
FlagPrefix == "<U+00E2><U+0161><U+00A0><U+00EF><U+00B8> "

\* A flag that leaves the term as the vocabulary writes it
UntitledTermFlag(term) == FlagPrefix \o term \o " mentioned"
\* f"... {term.title()} mentioned"
TermFlag(term) == FlagPrefix \o title(term) \o " mentioned"
PressureFlag == FlagPrefix \o "Abnormal Blood Pressure"

SystolicHigh == 140
SystolicLow == 90

\* A scan of the text as it is written, with no .lower()
CaseSensitiveFlags(text) ==
  Flatten([i \in 1..Len(critical_terms) |->
             IF contains(critical_terms[i], text)
             THEN <<TermFlag(critical_terms[i])>>
             ELSE <<>>])
\* The flags the loop over critical_terms appends, in order
VocabularyFlags(text) ==
  LET TermFlags(text_lower) ==
        Flatten([i \in 1..Len(critical_terms) |->
                   IF contains(critical_terms[i], text_lower)
                   THEN <<TermFlag(critical_terms[i])>>
                   ELSE <<>>])
  IN TermFlags(lower(text))

IsAbnormal(systolic) == systolic > SystolicHigh \/ systolic < SystolicLow

\* The check of the vital signs: what it appends, or the ValueError of
\* int() that it lets through.
PressureCheck(vital_signs) ==
  LET None == [raised |-> FALSE, flags |-> <<>>]
      \* `if systolic > 140 or systolic < 90: flags.append(...)`
      CheckSystolic(systolic) ==
        IF ~systolic.ok THEN [raised |-> TRUE, flags |-> <<>>]
        ELSE [raised |-> FALSE,
              flags |-> IF IsAbnormal(systolic.value)
                        THEN <<PressureFlag>> ELSE <<>>]
      \* `if "/" in bp: systolic = int(bp.split("/")[0])`
      CheckPressure(bp) ==
        IF contains("/", bp) THEN CheckSystolic(int(SplitChar(bp, "/")[1]))
        ELSE None
  IN IF "Blood Pressure" \in DOMAIN vital_signs
     THEN CheckPressure(vital_signs["Blood Pressure"])
     ELSE None

\* identify_critical_flags(text, summary) on a list flags that holds
\* `before`: the list it returns, or raised, with the list as it is then,
\* when it ends in the ValueError.
identify_critical_flags(before, text, vital_signs) ==
  LET Checked(flags, check) ==
        [raised |-> check.raised, flags |-> flags \o check.flags]
  IN Checked(before \o VocabularyFlags(text), PressureCheck(vital_signs))

(***************************************************************************)
(* Objects.  A list, a dict and a dataclass instance are objects of the    *)
(* heap, named by their address; a str is a value.                         *)
(***************************************************************************)
List(items) == [kind |-> "list", items |-> items]
Dict(map) == [kind |-> "dict", map |-> map]
PatientInfoObject(p) == [kind |-> "PatientInfo", fields |-> p]
MedicalSummaryObject(f) == [kind |-> "MedicalSummary", fields |-> f]

\* The address a newly created object gets
NewRef(h) == Len(h) + 1
\* h with obj at address ref
Store(h, ref, obj) ==
  IF ref = Len(h) + 1 THEN Append(h, obj) ELSE [h EXCEPT ![ref] = obj]

(***************************************************************************)
(* summarize_report, statement by statement.                               *)
(***************************************************************************)
Idle ==
  [pc |-> "idle", text |-> "", patient_info |-> 0, chief_complaint |-> "",
   diagnoses |-> 0, medications |-> 0, vital_signs |-> 0, lab_results |-> 0,
   summary |-> 0, flags |-> 0]

Running == {"l314", "l315", "l316", "l317", "l318", "l319", "l322",
            "l336", "l336_store", "l338"}

\* summarizer.summarize_report(text) is called
Enter(text) ==
  /\ frame.pc \notin Running
  /\ frame' = [Idle EXCEPT !.pc = "l314", !.text = text]
  /\ trace' = <<>>
  /\ calls' = calls + 1
  /\ UNCHANGED <<heap, returned, input, output>>

\* A summarizer that keeps one PatientInfo and refills it on every call
SharedPatientRef ==
  IF returned # <<>> THEN heap[returned[1].summary].fields.patient_info
  ELSE NewRef(heap)
\* patient = PatientInfo()  in extract_patient_info: the address of the object
PatientRef == NewRef(heap)

\* patient_info = self.extract_patient_info(medical_report)
Line314 ==
  /\ frame.pc = "l314"
  /\ heap' = Store(heap, PatientRef, PatientInfoObject(extract_patient_info(frame.text)))
  /\ frame' = [frame EXCEPT !.pc = "l315", !.patient_info = PatientRef]
  /\ trace' = Append(trace, "extract_patient_info")
  /\ UNCHANGED <<returned, calls, input, output>>

\* chief_complaint = self.extract_chief_complaint(medical_report)
Line315 ==
  /\ frame.pc = "l315"
  /\ frame' = [frame EXCEPT !.pc = "l316",
                            !.chief_complaint = extract_chief_complaint(frame.text)]
  /\ trace' = Append(trace, "extract_chief_complaint")
  /\ UNCHANGED <<heap, returned, calls, input, output>>

\* diagnoses = self.extract_diagnoses(medical_report)
Line316 ==
  /\ frame.pc = "l316"
  /\ heap' = Append(heap, List(extract_diagnoses(frame.text)))
  /\ frame' = [frame EXCEPT !.pc = "l317", !.diagnoses = NewRef(heap)]
  /\ trace' = Append(trace, "extract_diagnoses")
  /\ UNCHANGED <<returned, calls, input, output>>

\* medications = self.extract_medications(medical_report)
Line317 ==
  /\ frame.pc = "l317"
  /\ heap' = Append(heap, List(extract_medications(frame.text)))
  /\ frame' = [frame EXCEPT !.pc = "l318", !.medications = NewRef(heap)]
  /\ trace' = Append(trace, "extract_medications")
  /\ UNCHANGED <<returned, calls, input, output>>

\* vital_signs = self.extract_vital_signs(medical_report)
Line318 ==
  /\ frame.pc = "l318"
  /\ heap' = Append(heap, Dict(extract_vital_signs(frame.text)))
  /\ frame' = [frame EXCEPT !.pc = "l319", !.vital_signs = NewRef(heap)]
  /\ trace' = Append(trace, "extract_vital_signs")
  /\ UNCHANGED <<returned, calls, input, output>>

\* lab_results = self.extract_lab_results(medical_report)
Line319 ==
  /\ frame.pc = "l319"
  /\ heap' = Append(heap, List(extract_lab_results(frame.text)))
  /\ frame' = [frame EXCEPT !.pc = "l322", !.lab_results = NewRef(heap)]
  /\ trace' = Append(trace, "extract_lab_results")
  /\ UNCHANGED <<returned, calls, input, output>>

\* A summarizer that keeps the vital signs of its first report
StaleVitals(f) ==
  IF returned # <<>> THEN heap[returned[1].summary].fields.vital_signs
  ELSE f.vital_signs
\* The vital_signs argument of MedicalSummary(...)
SummaryVitals(f) == f.vital_signs

\* summary = MedicalSummary(patient_info=patient_info, ..., critical_flags=[])
\* The four [] of the call are new lists, created in the order written.
Line322 ==
  /\ frame.pc = "l322"
  /\ LET base == Len(heap)
         fields ==
           [patient_info |-> frame.patient_info,
            chief_complaint |-> frame.chief_complaint,
            diagnosis |-> frame.diagnoses,
            medications |-> frame.medications,
            vital_signs |-> SummaryVitals(frame),
            procedures |-> base + 1,
            allergies |-> base + 2,
            lab_results |-> frame.lab_results,
            recommendations |-> base + 3,
            critical_flags |-> base + 4]
     IN /\ heap' = heap \o <<List(<<>>), List(<<>>), List(<<>>), List(<<>>),
                             MedicalSummaryObject(fields)>>
        /\ frame' = [frame EXCEPT !.pc = "l336", !.summary = base + 5]
  /\ trace' = Append(trace, "MedicalSummary")
  /\ UNCHANGED <<returned, calls, input, output>>

\* A detector that keeps one list of flags and appends to it on every call
SharedFlagList ==
  IF returned # <<>> THEN heap[returned[1].summary].fields.critical_flags
  ELSE NewRef(heap)
\* flags = []  in identify_critical_flags: the address of the list
FlagList == NewRef(heap)

\* The items of the list at address ref, none when there is no such list
ItemsAt(h, ref) == IF ref <= Len(h) THEN h[ref].items ELSE <<>>

\* self.identify_critical_flags(medical_report, summary): the call of
\* line 336, which reads summary.vital_signs and may end in int()'s
\* ValueError, which summarize_report lets through to its caller.
Line336 ==
  /\ frame.pc = "l336"
  /\ LET \* the call's outcome r on the list at address ref
         Outcome(ref, r) ==
           /\ heap' = Store(heap, ref, List(r.flags))
           /\ IF r.raised
              THEN /\ frame' = [frame EXCEPT !.pc = "raised"]
                   /\ trace' = trace \o <<"identify_critical_flags", "ValueError">>
              ELSE /\ frame' = [frame EXCEPT !.pc = "l336_store", !.flags = ref]
                   /\ trace' = Append(trace, "identify_critical_flags")
     IN Outcome(FlagList,
                identify_critical_flags(
                  ItemsAt(heap, FlagList), frame.text,
                  heap[heap[frame.summary].fields.vital_signs].map))
  /\ UNCHANGED <<returned, calls, input, output>>

\* summary.critical_flags = (the list the call returned)
Line336Store ==
  /\ frame.pc = "l336_store"
  /\ heap' = [heap EXCEPT ![frame.summary].fields.critical_flags = frame.flags]
  /\ frame' = [frame EXCEPT !.pc = "l338"]
  /\ trace' = Append(trace, "summary.critical_flags =")
  /\ UNCHANGED <<returned, calls, input, output>>

\* The record at address ref with every reference replaced by what it
\* refers to: what a consumer of the summary reads.
Value(h, ref) ==
  LET f == h[ref].fields
  IN [patient_info |-> h[f.patient_info].fields,
      chief_complaint |-> f.chief_complaint,
      diagnosis |-> h[f.diagnosis].items,
      medications |-> h[f.medications].items,
      vital_signs |-> h[f.vital_signs].map,
      procedures |-> h[f.procedures].items,
      allergies |-> h[f.allergies].items,
      lab_results |-> h[f.lab_results].items,
      recommendations |-> h[f.recommendations].items,
      critical_flags |-> h[f.critical_flags].items]

\* return summary.  The caller gets the address; `value` keeps what the
\* record held at that moment.
Line338 ==
  /\ frame.pc = "l338"
  /\ returned' = Append(returned, [text |-> frame.text, summary |-> frame.summary,
                                   value |-> Value(heap, frame.summary)])
  /\ frame' = [frame EXCEPT !.pc = "returned"]
  /\ trace' = Append(trace, "return")
  /\ UNCHANGED <<heap, calls, input, output>>

Step ==
  \/ Line314 \/ Line315 \/ Line316 \/ Line317 \/ Line318 \/ Line319
  \/ Line322 \/ Line336 \/ Line336Store \/ Line338


(***************************************************************************)
(* The service: one summarizer (src/app.py, line 8) whose summarize_report *)
(* is called once per request, one call after the other.                   *)
(***************************************************************************)
MaxCalls == 3

DocA == "Patient: Ann Lee\nAge: 45\nSex: F\nBP: 150/95\nHR: 110\nacute chest pain\n"
DocB == "Name: Bo Ray\nMRN: A1\nDiagnosis: 1. Acute asthma\n2. Drug therapy\n\nRx: Aspirin 81mg daily\n\nGlucose: 145 severe"
DocC == "BP: 120/80 Temp: 98.6 no complaint"
SessionDocs == {DocA, DocB, DocC}

NoInput == [kind |-> "none"]
NoOutput == [done |-> FALSE]

Init ==
  /\ heap = <<>>
  /\ frame = Idle
  /\ returned = <<>>
  /\ trace = <<>>
  /\ calls = 0
  /\ input = NoInput
  /\ output = NoOutput

Call == \E text \in SessionDocs : calls < MaxCalls /\ Enter(text)

Next == Call \/ Step

Spec == Init /\ [][Next]_vars

\* The addresses of the record at address ref and of the objects it holds
Objects(h, ref) ==
  {ref, h[ref].fields.patient_info, h[ref].fields.diagnosis,
   h[ref].fields.medications, h[ref].fields.vital_signs,
   h[ref].fields.procedures, h[ref].fields.allergies,
   h[ref].fields.lab_results, h[ref].fields.recommendations,
   h[ref].fields.critical_flags}

\* The steps of a call that returns, in the order of the source
FullTrace ==
  << "extract_patient_info", "extract_chief_complaint", "extract_diagnoses",
     "extract_medications", "extract_vital_signs", "extract_lab_results",
     "MedicalSummary", "identify_critical_flags", "summary.critical_flags =",
     "return" >>

\* C4: in every execution of summarize_report the detection of the critical
\* flags starts only after the vital signs have been extracted and stored in
\* the record being built, the flags are computed from that same map, and
\* the assignment of critical_flags is the last one before the return.
C4_FlagsAfterVitals ==
  /\ \A i \in 1..Len(trace) :
       trace[i] = "identify_critical_flags" =>
         \E j \in 1..(i - 1) : \E k \in (j + 1)..(i - 1) :
           trace[j] = "extract_vital_signs" /\ trace[k] = "MedicalSummary"
  /\ frame.pc = "l336" =>
       /\ heap[frame.summary].fields.vital_signs = frame.vital_signs
       /\ heap[frame.vital_signs].kind = "dict"
  /\ frame.pc \in {"l336_store", "l338", "returned"} =>
       heap[frame.flags].items =
         identify_critical_flags(<<>>, frame.text, heap[frame.vital_signs].map).flags
  /\ frame.pc \in {"l338", "returned"} =>
       heap[frame.summary].fields.critical_flags = frame.flags
  /\ frame.pc = "returned" => trace = FullTrace
  /\ \A i \in 1..Len(trace) : trace[i] = FullTrace[i]
\* A second call has returned a record with the blood pressure flag
C4_Witness ==
  /\ frame.pc = "returned"
  /\ Len(returned) = 2
  /\ PressureFlag \in
       {returned[2].value.critical_flags[i] :
          i \in 1..Len(returned[2].value.critical_flags)}
  /\ "Blood Pressure" \in DOMAIN returned[2].value.vital_signs

\* C9: two calls of summarize_report on the same text, with any calls in
\* between, return records that are equal field for field.
C9_SameTextSameRecord ==
  \A i \in 1..Len(returned) : \A j \in 1..Len(returned) :
    returned[i].text = returned[j].text =>
      /\ returned[i].value = returned[j].value
      /\ Value(heap, returned[i].summary) = Value(heap, returned[j].summary)
\* Two calls on one text with flags, and a call on another text in between
C9_Witness ==
  /\ Len(returned) = 3
  /\ returned[1].text = returned[3].text
  /\ returned[2].text # returned[1].text
  /\ returned[1].value.critical_flags # <<>>
  /\ returned[2].value.critical_flags # <<>>

\* C10: no later call changes a record that summarize_report has returned,
\* and the records returned, and the call in progress, share no PatientInfo,
\* list or map.
C10_ReturnedRecordsUntouched ==
  /\ \A i \in 1..Len(returned) :
       Value(heap, returned[i].summary) = returned[i].value
  /\ \A i \in 1..Len(returned) : \A j \in 1..Len(returned) :
       i # j => Objects(heap, returned[i].summary)
                  \cap Objects(heap, returned[j].summary) = {}
  /\ \A i \in 1..Len(returned) :
       frame.pc \in Running =>
         Objects(heap, returned[i].summary)
           \cap ({frame.patient_info, frame.diagnoses, frame.medications,
                  frame.vital_signs, frame.lab_results, frame.summary,
                  frame.flags} \ {0}) = {}
\* Two calls on different texts have returned, and a third is past its
\* last write
C10_Witness ==
  /\ Len(returned) = 2
  /\ returned[1].text # returned[2].text
  /\ returned[1].value # returned[2].value
  /\ frame.pc = "l338"

(***************************************************************************)
(* identify_critical_flags called on its own, once, on a text and a        *)
(* summary with the vital signs given.                                     *)
(***************************************************************************)
MaxSystolic == 150
MaxMentions == 2

\* s written k times
RECURSIVE Repeat(_, _)
Repeat(s, k) ==
  IF k = 0 THEN ""
  ELSE IF k = 1 THEN s
  ELSE Repeat(s, k \div 2) \o Repeat(s, k - k \div 2)
\* The decimal digits of n
RECURSIVE DecimalString(_)
DecimalString(n) ==
  IF n < 10 THEN CharAt("0123456789", n + 1)
  ELSE DecimalString(n \div 10) \o CharAt("0123456789", (n % 10) + 1)

\* The readings "S/D"
Readings ==
  {DecimalString(sys) \o "/" \o dia : sys \in 0..MaxSystolic, dia \in {"40", "80", "120"}}
\* A reading whose systolic part has one digit more than int() accepts
LongReading == Repeat("9", IntMaxStrDigits + 1) \o "/80"
\* Values that are no reading: the first four have a "/"
Malformed == {"abc/80", "/80", "12o/80", "150.0/80", "120", "high"}
FlagVitals ==
  {"Blood Pressure" :> bp : bp \in Readings \cup Malformed \cup {LongReading}}
    \cup {EmptyDict, "Heart Rate" :> "72 bpm"}

\* term in lower case, in upper case, or with every other letter raised
Cased(term, style) ==
  CASE style = "lower" -> term
    [] style = "upper" ->
         Flatten([i \in 1..Len(term) |-> UpperChar(CharAt(term, i))])
    [] style = "mixed" ->
         Flatten([i \in 1..Len(term) |->
                    IF i % 2 = 1 THEN UpperChar(CharAt(term, i)) ELSE CharAt(term, i)])
\* A text that mentions term k times
Mention(term, style, k) == "Pt: " \o Repeat(Cased(term, style) \o ". ", k) \o "end"
MentionTexts ==
  {Mention(critical_terms[i], style, k) :
     i \in 1..Len(critical_terms), style \in {"lower", "upper", "mixed"},
     k \in 0..MaxMentions}
ExampleText == "Chest Pain noted, ACUTE onset"
FixedTexts == {"", ExampleText, "critically ill, no s troke"}

FlagCalls ==
  (FixedTexts \X FlagVitals)
    \cup (MentionTexts \X {EmptyDict, "Blood Pressure" :> "150/95",
                          "Blood Pressure" :> "abc/80"})

\* flags = self.identify_critical_flags(text, summary), called once
IdentifyCriticalFlags(text, vital_signs) ==
  /\ ~output.done
  /\ input' = [op |-> "identify_critical_flags", text |-> text,
               vital_signs |-> vital_signs]
  /\ output' = [done |-> TRUE,
                result |-> identify_critical_flags(<<>>, text, vital_signs)]
  /\ UNCHANGED <<heap, frame, returned, trace, calls>>

NextFlags == \E c \in FlagCalls : IdentifyCriticalFlags(c[1], c[2])

SpecFlags == Init /\ [][NextFlags]_vars

\* term occurs in text in some letter case
OccursAnyCase(term, text) ==
  \E p \in 1..(Len(text) - Len(term) + 1) :
    \A j \in 1..Len(term) : LowerChar(CharAt(text, p + j - 1)) = CharAt(term, j)
\* How many items of the list l satisfy Is
Count(l, Is(_)) == Cardinality({i \in 1..Len(l) : Is(l[i])})
\* A flag of the blood pressure check
IsPressureFlag(flag) == contains("Abnormal Blood Pressure", flag)
\* The call that has been made was a call of identify_critical_flags
Detected == output.done /\ input.op = "identify_critical_flags"
\* The flags of the call other than the one of the blood pressure check
VocabularyPart ==
  Select(output.result.flags,
         {i \in 1..Len(output.result.flags) : ~IsPressureFlag(output.result.flags[i])})

\* s is digits, one at least
IsDigits(s) == s # "" /\ \A i \in 1..Len(s) : CharAt(s, i) \in Digits
\* The part of bp before its first "/", and the part after it
Systolic(bp) == SubSeq(bp, 1, (CHOOSE k \in 1..Len(bp) :
                  CharAt(bp, k) = "/" /\ \A j \in 1..(k - 1) : CharAt(bp, j) # "/") - 1)
Diastolic(bp) == SubSeq(bp, Len(Systolic(bp)) + 2, Len(bp))
HasSlash(bp) == \E k \in 1..Len(bp) : CharAt(bp, k) = "/"
\* bp is "S/D" with an integer S
IsReading(bp) == HasSlash(bp) /\ IsDigits(Systolic(bp)) /\ IsDigits(Diastolic(bp))
\* The number the digits d write is above 140 or below 90
OutOfRange(d) ==
  LET zeros == CHOOSE z \in 0..Len(d) :
                 /\ \A i \in 1..z : CharAt(d, i) = "0"
                 /\ (z < Len(d) - 1 => CharAt(d, z + 1) # "0")
                 /\ z < Len(d)
      significant == SubSeq(d, zeros + 1, Len(d))
      \* the number that up to three digits write
      Number(t) == CHOOSE n \in 0..999 : DecimalString(n) = t
  IN Len(significant) > 3
       \/ Number(significant) > 140 \/ Number(significant) < 90

\* C2: for a summary whose blood pressure is "S/D" with an integer S,
\* identify_critical_flags emits exactly one blood pressure flag when
\* S > 140 or S < 90 and none otherwise, whatever D is; and none when there
\* is no blood pressure.
C2_PressureFlagIffOutOfRange ==
  Detected =>
    /\ "Blood Pressure" \notin DOMAIN input.vital_signs =>
         Count(output.result.flags, IsPressureFlag) = 0
    /\ ("Blood Pressure" \in DOMAIN input.vital_signs
          /\ IsReading(input.vital_signs["Blood Pressure"])) =>
         /\ ~output.result.raised
         /\ Count(output.result.flags, IsPressureFlag) =
              IF OutOfRange(Systolic(input.vital_signs["Blood Pressure"]))
              THEN 1 ELSE 0

\* C3: given a blood pressure that is malformed (no "/", or a part before
\* the "/" that is no integer), identify_critical_flags does not raise,
\* emits no blood pressure flag and returns the flags of the vocabulary.
C3_MalformedPressureSkipped ==
  (Detected
     /\ "Blood Pressure" \in DOMAIN input.vital_signs
     /\ (~HasSlash(input.vital_signs["Blood Pressure"])
           \/ ~IsDigits(Systolic(input.vital_signs["Blood Pressure"])))) =>
    /\ ~output.result.raised
    /\ Count(output.result.flags, IsPressureFlag) = 0
    /\ output.result.flags = VocabularyFlags(input.text)

\* The flag of each term of the vocabulary, as src/models/summarizer.py
\* emits it
EmittedTermFlags ==
  << "<U+00E2><U+0161><U+00A0><U+00EF><U+00B8> Critical mentioned",
     "<U+00E2><U+0161><U+00A0><U+00EF><U+00B8> Urgent mentioned",
     "<U+00E2><U+0161><U+00A0><U+00EF><U+00B8> Emergency mentioned",
     "<U+00E2><U+0161><U+00A0><U+00EF><U+00B8> Acute mentioned",
     "<U+00E2><U+0161><U+00A0><U+00EF><U+00B8> Severe mentioned",
     "<U+00E2><U+0161><U+00A0><U+00EF><U+00B8> Chest Pain mentioned",
     "<U+00E2><U+0161><U+00A0><U+00EF><U+00B8> Shortness Of Breath mentioned",
     "<U+00E2><U+0161><U+00A0><U+00EF><U+00B8> Stroke mentioned",
     "<U+00E2><U+0161><U+00A0><U+00EF><U+00B8> Heart Attack mentioned",
     "<U+00E2><U+0161><U+00A0><U+00EF><U+00B8> Allergic Reaction mentioned",
     "<U+00E2><U+0161><U+00A0><U+00EF><U+00B8> Sepsis mentioned",
     "<U+00E2><U+0161><U+00A0><U+00EF><U+00B8> Pneumonia mentioned" >>
EmittedPressureFlag == "<U+00E2><U+0161><U+00A0><U+00EF><U+00B8> Abnormal Blood Pressure"
\* The flag of each term of the vocabulary: the term in title case and
\* " Mentioned"
TitledTermFlags ==
  << "Critical Mentioned",
     "Urgent Mentioned",
     "Emergency Mentioned",
     "Acute Mentioned",
     "Severe Mentioned",
     "Chest Pain Mentioned",
     "Shortness Of Breath Mentioned",
     "Stroke Mentioned",
     "Heart Attack Mentioned",
     "Allergic Reaction Mentioned",
     "Sepsis Mentioned",
     "Pneumonia Mentioned" >>

\* C7: for each term of the vocabulary the scan emits exactly one flag when
\* the term occurs in the text, in any letter case and however often, and
\* none when it does not; the vocabulary part of the flags has no
\* duplicates and nothing else.
C7_OneFlagPerTerm ==
  Detected =>
    /\ \A i \in 1..Len(critical_terms) :
         Count(VocabularyPart, LAMBDA flag : flag = EmittedTermFlags[i]) =
           IF OccursAnyCase(critical_terms[i], input.text) THEN 1 ELSE 0
    /\ Len(VocabularyPart) =
         Cardinality({i \in 1..Len(critical_terms) :
                        OccursAnyCase(critical_terms[i], input.text)})
    /\ \A i \in 1..Len(VocabularyPart) : \A j \in 1..Len(VocabularyPart) :
         VocabularyPart[i] = VocabularyPart[j] => i = j
\* A text that mentions one term twice in upper case has one flag
C7_Witness ==
  /\ Detected
  /\ input.text = Mention("heart attack", "upper", 2)
  /\ VocabularyPart = <<EmittedTermFlags[9]>>

\* C8 as claimed: the flag of a matched term is the term in title case
\* followed by " Mentioned", the example text yields "Acute Mentioned" and
\* "Chest Pain Mentioned", and a threshold violation yields
\* "Abnormal Blood Pressure".
C8_TitledFlags ==
  (Detected /\ ~output.result.raised) =>
    /\ \A i \in 1..Len(critical_terms) :
         OccursAnyCase(critical_terms[i], input.text) =>
           Count(output.result.flags, LAMBDA flag : flag = TitledTermFlags[i]) = 1
    /\ input.text = ExampleText =>
         VocabularyPart = <<"Acute Mentioned", "Chest Pain Mentioned">>
    /\ Count(output.result.flags, IsPressureFlag) =
         Count(output.result.flags, LAMBDA flag : flag = "Abnormal Blood Pressure")

\* C8 as amended: the flag of a matched term is the five characters
\* U+00E2 U+0161 U+00A0 U+00EF U+00B8 and a space, the term in title case,
\* and " mentioned" in lower case; the example text yields those of "Acute"
\* and "Chest Pain"; the flag of a threshold violation is the same six
\* characters and "Abnormal Blood Pressure".
C8_PrefixedFlags ==
  (Detected /\ ~output.result.raised) =>
    /\ \A i \in 1..Len(critical_terms) :
         OccursAnyCase(critical_terms[i], input.text) =>
           Count(output.result.flags, LAMBDA flag : flag = EmittedTermFlags[i]) = 1
    /\ \A i \in 1..Len(output.result.flags) :
         \/ output.result.flags[i] = EmittedPressureFlag
         \/ \E k \in 1..Len(critical_terms) :
              output.result.flags[i] = EmittedTermFlags[k]
    /\ input.text = ExampleText =>
         VocabularyPart = <<EmittedTermFlags[4], EmittedTermFlags[6]>>
    /\ Count(output.result.flags, IsPressureFlag) =
         Count(output.result.flags, LAMBDA flag : flag = EmittedPressureFlag)
\* The example text with a systolic pressure of 150
C8_Witness ==
  /\ Detected
  /\ input.text = ExampleText
  /\ input.vital_signs = "Blood Pressure" :> "150/80"
  /\ output.result.flags =
       <<EmittedTermFlags[4], EmittedTermFlags[6], EmittedPressureFlag>>

(***************************************************************************)
(* extract_diagnoses and extract_medications called on their own, once, on *)
(* a report with one section of n items.                                   *)
(***************************************************************************)
MaxItems == 16

\* The lines l[lo..hi] with a newline between them
RECURSIVE JoinRange(_, _, _)
JoinRange(l, lo, hi) ==
  IF lo > hi THEN ""
  ELSE IF lo = hi THEN l[lo]
  ELSE JoinRange(l, lo, (lo + hi) \div 2) \o "\n"
         \o JoinRange(l, (lo + hi) \div 2 + 1, hi)
JoinLines(l) == JoinRange(l, 1, Len(l))

Letter(k) == CharAt("ABCDEFGHIJKLMNOPQRSTUVWXYZ", k)
\* The marker of the k-th item of a list
Marker(marker, k) ==
  CASE marker = "numbered" -> DecimalString(k) \o ". "
    [] marker = "dashed" -> "- "
    [] marker = "plain" -> ""

\* n diagnoses, named in order
DiagnosisNames(n) == [k \in 1..n |-> "Disease " \o Letter(k)]
DiagnosisDoc(heading, marker, n) ==
  heading \o ": "
    \o JoinLines([k \in 1..n |-> Marker(marker, k) \o DiagnosisNames(n)[k]])
    \o "\n\nPlan: rest"
DiagnosisCalls ==
  {<<DiagnosisDoc(heading, marker, n), DiagnosisNames(n)>> :
     heading \in {"Diagnosis", "Final Impression", "Assessment"},
     marker \in {"numbered", "dashed"}, n \in 0..MaxItems}

\* n medications, one a line: their names alone, or each with a dosage,
\* which makes two candidates of each (the name, and the line)
MedicationLine(dosed, k) ==
  IF dosed THEN "Med" \o Letter(k) \o " 10mg" ELSE "Tablet-" \o Letter(k)
MedicationCandidates(dosed, n) ==
  (IF dosed THEN [k \in 1..n |-> "Med" \o Letter(k)] ELSE <<>>)
    \o [k \in 1..n |-> MedicationLine(dosed, k)]
MedicationDoc(heading, dosed, n) ==
  heading \o ": " \o JoinLines([k \in 1..n |-> MedicationLine(dosed, k)])
    \o "\n\nAllergies: none"
MedicationCalls ==
  {<<MedicationDoc(heading, dosed, n), MedicationCandidates(dosed, n)>> :
     heading \in {"Medications", "Rx", "Current Medications"},
     dosed \in BOOLEAN, n \in 0..MaxItems}

\* diagnoses = self.extract_diagnoses(text), called once
ExtractDiagnoses(text, candidates) ==
  /\ ~output.done
  /\ input' = [op |-> "extract_diagnoses", text |-> text, candidates |-> candidates]
  /\ output' = [done |-> TRUE, collected |-> CollectedDiagnoses(text),
                result |-> extract_diagnoses(text)]
  /\ UNCHANGED <<heap, frame, returned, trace, calls>>

\* medications = self.extract_medications(text), called once
ExtractMedications(text, candidates) ==
  /\ ~output.done
  /\ input' = [op |-> "extract_medications", text |-> text, candidates |-> candidates]
  /\ output' = [done |-> TRUE, collected |-> CollectedMedications(text),
                result |-> extract_medications(text)]
  /\ UNCHANGED <<heap, frame, returned, trace, calls>>

NextLists ==
  \/ \E c \in DiagnosisCalls : ExtractDiagnoses(c[1], c[2])
  \/ \E c \in MedicationCalls : ExtractMedications(c[1], c[2])

SpecLists == Init /\ [][NextLists]_vars

\* C5: extract_diagnoses returns at most 10 items and extract_medications
\* at most 15, however many candidates the section holds, and they are the
\* first 10 and the first 15 candidates in the order produced.
C5_ListsCapped ==
  (output.done /\ input.op \in {"extract_diagnoses", "extract_medications"}) =>
    LET cap == IF input.op = "extract_diagnoses" THEN 10 ELSE 15
        kept == IF Len(input.candidates) < cap THEN Len(input.candidates) ELSE cap
    IN /\ output.collected = input.candidates
       /\ Len(output.result) <= cap
       /\ Len(output.result) = kept
       /\ \A i \in 1..kept : output.result[i] = input.candidates[i]
\* A section of more than 10 diagnoses, of which 10 are returned
C5_Witness ==
  /\ output.done
  /\ input.op = "extract_diagnoses"
  /\ Len(input.candidates) > 10
  /\ Len(output.result) = 10
  /\ output.result[10] = "Disease J"

(***************************************************************************)
(* clean_diagnosis_text called on its own, once, on a numbered list of     *)
(* candidates.                                                             *)
(***************************************************************************)
MaxCandidates == 2

Phrases ==
  {"Acute coronary syndrome", "Medication adjustment", "Diabetes management",
   "Hypertension - stable", "Fracture of wrist", "DRUG THERAPY",
   "CHRONIC KIDNEY DISEASE", "Explant", "Well-Controlled Asthma",
   "Osteoarthritis Care", "Drug", "Flu"}
CandidateLists == UNION {[1..n -> Phrases] : n \in 1..MaxCandidates}
NumberedList(candidates) ==
  JoinLines([k \in 1..Len(candidates) |-> Marker("numbered", k) \o candidates[k]])

\* self.clean_diagnosis_text(text), called once
CleanDiagnosisText(candidates) ==
  /\ ~output.done
  /\ input' = [op |-> "clean_diagnosis_text", text |-> NumberedList(candidates),
               candidates |-> candidates]
  /\ output' = [done |-> TRUE, passes |-> CleanPasses(NumberedList(candidates)),
                result |-> clean_diagnosis_text(NumberedList(candidates))]
  /\ UNCHANGED <<heap, frame, returned, trace, calls>>

NextClean == \E candidates \in CandidateLists : CleanDiagnosisText(candidates)

SpecClean == Init /\ [][NextClean]_vars

\* The candidate holds a term of the vocabulary words, in any letter case
HoldsOneOf(words, candidate) ==
  \E i \in 1..Len(words) : OccursAnyCase(words[i], candidate)

\* C6: clean_diagnosis_text drops a candidate at the exclusion test if and
\* only if it holds a term of the exclusion vocabulary and none of the
\* inclusion vocabulary, in any letter case; a candidate with both kinds of
\* term, or with no exclusion term, is not dropped there.
C6_ExcludedIffNoIndicator ==
  (output.done /\ input.op = "clean_diagnosis_text") =>
    /\ Len(output.passes) = Len(input.candidates)
    /\ \A i \in 1..Len(input.candidates) :
         LET excluded == /\ HoldsOneOf(exclude_words, input.candidates[i])
                         /\ ~HoldsOneOf(medical_indicators, input.candidates[i])
         IN /\ excluded => output.passes[i].step \in {"continue_excluded", "continue_short"}
            /\ output.passes[i].step # "continue_short" =>
                 (output.passes[i].step = "continue_excluded" <=> excluded)
    /\ input.candidates = <<"Acute coronary syndrome", "Medication adjustment">> =>
         output.result = <<"Acute coronary syndrome">>
\* A candidate with both kinds of term that is kept beside one that is
\* excluded
C6_Witness ==
  /\ output.done
  /\ input.op = "clean_diagnosis_text"
  /\ input.candidates = <<"Diabetes management", "Medication adjustment">>
  /\ output.passes[1].step = "append"
  /\ output.passes[2].step = "continue_excluded"
  /\ output.result = <<"Diabetes management">>

(***************************************************************************)
(* summarize_report called once, on a report put together from a header,   *)
(* a line of vital signs and a body.                                       *)
(***************************************************************************)
Headers == {"", "Patient: Ann Lee\nAge: 45\nGender: Female\nMRN: AB12\n"}
VitalLines ==
  {"", "BP: 150/95 HR: 110\n", "BP: 120/80\nTemp: 98.6\nRR: 16\nO2 Sat: 97%\n",
   "BP: " \o LongReading \o "\n"}
Bodies ==
  {"", "no findings, patient stable",
   "Chief Complaint: chest pain\n\nDiagnosis: 1. Acute asthma\n2. Drug therapy\n\nMedications: Aspirin 81mg daily\n\nHemoglobin: 13.5 WBC: 7.2\n"}
PipelineDocs ==
  {header \o vitals \o body :
     header \in Headers, vitals \in VitalLines, body \in Bodies}

CallOnce == \E text \in PipelineDocs : calls = 0 /\ Enter(text)

NextPipeline == CallOnce \/ Step

SpecPipeline == Init /\ [][NextPipeline]_vars

\* Every field of the record at address ref is set
Complete(h, ref) ==
  /\ h[ref].kind = "MedicalSummary"
  /\ h[h[ref].fields.patient_info].kind = "PatientInfo"
  /\ DOMAIN h[h[ref].fields.patient_info].fields = {"name", "age", "gender", "mrn", "dob"}
  /\ \A k \in DOMAIN h[h[ref].fields.patient_info].fields :
       h[h[ref].fields.patient_info].fields[k] \in STRING
  /\ h[ref].fields.chief_complaint \in STRING
  /\ \A k \in {"diagnosis", "medications", "procedures", "allergies",
               "lab_results", "recommendations", "critical_flags"} :
       h[h[ref].fields[k]].kind = "list"
  /\ h[h[ref].fields.vital_signs].kind = "dict"

\* C1: for every text summarize_report ends without raising and returns a
\* MedicalSummary with every field set.
C1_ReturnsCompleteSummary ==
  /\ frame.pc # "raised"
  /\ frame.pc = "returned" => Complete(heap, frame.summary)

(***************************************************************************)
(* extract_patient_info called on its own, once, on a header whose gender  *)
(* line is put together from a heading, a separator and a value.           *)
(***************************************************************************)
GenderHeadings == {"Gender", "Sex", "sex", "GENDER"}
GenderSeparators == {": ", " ", ":", ":\n"}
GenderValues ==
  {"Male", "Female", "M", "F", "male", "FEMALE", "m", "f", "feMale",
   "Other", "Maleficent", "unknown", "Non-binary", ""}
GenderDoc(heading, sep, value) ==
  "Patient: Ann Lee\n" \o heading \o sep \o value \o "\n"

\* self.extract_patient_info(text), called once
ExtractPatientInfo(heading, sep, value) ==
  /\ ~output.done
  /\ input' = [op |-> "extract_patient_info",
               text |-> GenderDoc(heading, sep, value), value |-> value]
  /\ output' = [done |-> TRUE,
                result |-> extract_patient_info(GenderDoc(heading, sep, value))]
  /\ UNCHANGED <<heap, frame, returned, trace, calls>>

NextPatient ==
  \E heading \in GenderHeadings, sep \in GenderSeparators, value \in GenderValues :
    ExtractPatientInfo(heading, sep, value)

SpecPatient == Init /\ [][NextPatient]_vars

\* The call that has been made was a call of extract_patient_info
Extracted == output.done /\ input.op = "extract_patient_info"

\* C11 as claimed: the gender of the PatientInfo returned by
\* extract_patient_info is exactly "Male", "Female", "M", "F" or "".
C11_GenderInFixedSet ==
  Extracted => output.result.gender \in {"Male", "Female", "M", "F", ""}

\* C11 as amended: the gender returned by extract_patient_info is the empty
\* string or the text as it is written in the report, which equals "Male",
\* "Female", "M" or "F" when letter case is ignored.
C11_GenderAnyCase ==
  Extracted =>
    /\ lower(output.result.gender) \in {"male", "female", "m", "f", ""}
    /\ output.result.gender =
         SubSeq(input.value, 1, Len(output.result.gender))
\* A gender written in upper case is returned in upper case
C11_Witness ==
  /\ Extracted
  /\ input.value = "FEMALE"
  /\ output.result.gender = "FEMALE"

(***************************************************************************)
(* summarize_report called once, on a report that may carry a date of      *)
(* birth and sections of allergies, procedures and recommendations.        *)
(***************************************************************************)
BirthLines == {"", "DOB: 01/02/1980\n", "Date of Birth: 1980-01-02\n"}
AllergyLines == {"", "Allergies: penicillin\n"}
ProcedureLines == {"", "Procedures: 1. Appendectomy\n"}
RecommendationLines == {"", "Recommendations: follow up in 2 weeks\n"}
ReservedDocs ==
  {"Patient: Ann Lee\n" \o birth \o "Age: 45\n" \o allergy \o procedure \o advice :
     birth \in BirthLines, allergy \in AllergyLines,
     procedure \in ProcedureLines, advice \in RecommendationLines}
FullReservedDoc ==
  "Patient: Ann Lee\nDOB: 01/02/1980\nAge: 45\nAllergies: penicillin\n"
    \o "Procedures: 1. Appendectomy\nRecommendations: follow up in 2 weeks\n"

CallReserved == \E text \in ReservedDocs : calls = 0 /\ Enter(text)

NextReserved == CallReserved \/ Step

SpecReserved == Init /\ [][NextReserved]_vars

\* The record at address ref has empty placeholder lists and no date of birth
Unpopulated(h, ref) ==
  /\ Value(h, ref).procedures = <<>>
  /\ Value(h, ref).allergies = <<>>
  /\ Value(h, ref).recommendations = <<>>
  /\ Value(h, ref).patient_info.dob = ""

\* C12: in every MedicalSummary that summarize_report builds and returns,
\* procedures, allergies and recommendations are empty lists and
\* patient_info.dob is the empty string, whatever the text holds.
C12_PlaceholdersEmpty ==
  /\ frame.pc \in {"l336", "l336_store", "l338", "returned"} =>
       Unpopulated(heap, frame.summary)
  /\ \A i \in 1..Len(returned) :
       /\ Unpopulated(heap, returned[i].summary)
       /\ returned[i].value = Value(heap, returned[i].summary)
\* The report with a date of birth and all three sections has been
\* summarized
C12_Witness ==
  /\ Len(returned) = 1
  /\ returned[1].text = FullReservedDoc
  /\ returned[1].value.patient_info.name = "Ann Lee"
  /\ returned[1].value.patient_info.age = "45"
  /\ Unpopulated(heap, returned[1].summary)

(***************************************************************************)
(* extract_diagnoses, extract_chief_complaint and extract_medications      *)
(* called on their own, once, on a report of two sections under two        *)
(* different headings of the same kind.                                    *)
(***************************************************************************)
DiagnosisHeadings == <<"Diagnosis", "Final Impression", "Assessment", "ICD 10">>
DiagnosisContents == {"1. Acute asthma", "1. Drug therapy", ""}
ComplaintHeadings == <<"Chief Complaint", "Presenting Problem", "CC">>
ComplaintContents == {"chest pain", "cough for 3 days", ""}
MedicationHeadings == <<"Medications", "Rx">>
MedicationContents == {"Aspirin 81mg daily", "1. see list", ""}

\* Two sections, each ended by a blank line
TwoSections(sections) ==
  sections[1].heading \o ": " \o sections[1].content \o "\n\n"
    \o sections[2].heading \o ": " \o sections[2].content \o "\n\n"
\* The pairs of sections under two different headings, in both orders
SectionPairs(headings, contents) ==
  {<<[heading |-> headings[i], content |-> c], [heading |-> headings[j], content |-> d]>> :
     <<i, j>> \in {p \in (DOMAIN headings) \X (DOMAIN headings) : p[1] # p[2]},
     c \in contents, d \in contents}

\* self.extract_chief_complaint(text), called once
ExtractChiefComplaint(text, candidates) ==
  /\ ~output.done
  /\ input' = [op |-> "extract_chief_complaint", text |-> text,
               candidates |-> candidates]
  /\ output' = [done |-> TRUE, result |-> extract_chief_complaint(text)]
  /\ UNCHANGED <<heap, frame, returned, trace, calls>>

NextSections ==
  \/ \E s \in SectionPairs(DiagnosisHeadings, DiagnosisContents) :
       ExtractDiagnoses(TwoSections(s), s)
  \/ \E s \in SectionPairs(ComplaintHeadings, ComplaintContents) :
       ExtractChiefComplaint(TwoSections(s), s)
  \/ \E s \in SectionPairs(MedicationHeadings, MedicationContents) :
       ExtractMedications(TwoSections(s), s)

SpecSections == Init /\ [][NextSections]_vars

\* The patterns of the function that has been called, and its headings
PatternsOf(op) ==
  CASE op = "extract_diagnoses" -> diagnosis_patterns
    [] op = "extract_chief_complaint" -> chief_complaint_patterns
    [] op = "extract_medications" -> medication_patterns
HeadingsOf(op) ==
  CASE op = "extract_diagnoses" -> DiagnosisHeadings
    [] op = "extract_chief_complaint" -> ComplaintHeadings
    [] op = "extract_medications" -> MedicationHeadings
\* The index of the first alternative that matches text, and 0 when none does
FirstAlternative(patterns, text) ==
  CHOOSE k \in 0..Len(patterns) :
    /\ k # 0 => search(patterns[k], text, ICDotAll).ok
    /\ \A i \in 1..Len(patterns) :
         (k = 0 \/ i < k) => ~search(patterns[i], text, ICDotAll).ok
\* What the function makes of the capture of one alternative
FromCapture(op, capture) ==
  CASE op = "extract_diagnoses" ->
         Take(clean_diagnosis_text(strip(capture)), MaxDiagnoses)
    [] op = "extract_chief_complaint" -> strip(capture)
    [] op = "extract_medications" ->
         Take(findall(dosage_pattern, capture, Plain) \o MedicationLines(capture),
              MaxMedications)
\* What the function makes of a section that holds content
FromContent(content) ==
  CASE content = "1. Acute asthma" -> <<"Acute asthma">>
    [] content = "1. Drug therapy" -> <<>>
    [] content = "Aspirin 81mg daily" -> <<"Aspirin", "Aspirin 81mg daily">>
    [] content = "1. see list" -> <<>>
    [] OTHER -> content
\* The place, 1 or 2, of the section whose heading comes first in the list
\* of alternatives
Preferred(headings, sections) ==
  CHOOSE n \in 1..2 :
    \A i \in DOMAIN headings : \A j \in DOMAIN headings :
      (headings[i] = sections[n].heading /\ headings[j] = sections[3 - n].heading)
        => i < j

MaxListed == 2

ShortPhrases == {"Flu", "Tic", "Gout", "Acne", "Croup", "Mumps", "Asthma", "Scurvy"}
StatusPhrases ==
  {"Hypertension - stable", "Hypertension - Stable", "Diabetes - CONTROLLED",
   "Anemia -improved", "Anemia - stable - improved", "--stable coronary disease"}
ListedItems ==
  UNION {[1..n -> ShortPhrases \cup StatusPhrases] : n \in 1..MaxListed}

NextItems == \E candidates \in ListedItems : CleanDiagnosisText(candidates)

SpecItems == Init /\ [][NextItems]_vars

\* The call that has been made was a call of clean_diagnosis_text
Cleaned == output.done /\ input.op = "clean_diagnosis_text"

\* C14: clean_diagnosis_text discards every candidate that has fewer than 5
\* characters once its numbering or bullet is removed, the first candidate of
\* the section included: none of them is appended to the returned list.
C14_ShortItemsDiscarded ==
  Cleaned =>
    /\ Len(output.passes) = Len(input.candidates)
    /\ \A i \in 1..Len(input.candidates) :
         Len(input.candidates[i]) < MinItemLen =>
           output.passes[i].step # "append"

\* The text holds a status-clause separator, in any letter case
HasStatusClause(s) == search(status_clause, s, IC).ok

\* C16: of a candidate that passes the exclusion test, clean_diagnosis_text
\* keeps the part before the first status-clause separator, a dash followed
\* by stable, controlled, improved, management or adjustment in any letter
\* case: no returned item holds such a separator, and none is empty.
C16_StatusClauseCut ==
  Cleaned =>
    /\ \A j \in 1..Len(output.result) :
         output.result[j] # "" /\ ~HasStatusClause(output.result[j])
    /\ \A i \in 1..Len(output.passes) :
         output.passes[i].step \in {"append", "end"} =>
           ~HasStatusClause(output.passes[i].text)

(***************************************************************************)
(* extract_medications called on its own, once, on a Medications section   *)
(* of a few lines: dosed and undosed, numbered, bulleted and short ones.   *)
(***************************************************************************)
MaxMedLines == 2

MedicationPhrases ==
  {"Aspirin 81mg daily", "1. Metformin 500mg", "Vitamin D 5mcg", "- ASA",
   "ASA", "2. see list", "  Lisinopril  ", "Insulin 10 units",
   "Medication adjustment", "- Zinc 50mg"}
MedicationLists ==
  UNION {[1..n -> MedicationPhrases] : n \in 1..MaxMedLines}
MedicationSection(lines) == "Medications: " \o JoinLines(lines) \o "\n\nAllergies: none"

NextMedications ==
  \E lines \in MedicationLists :
    ExtractMedications(MedicationSection(lines), lines)

SpecMedications == Init /\ [][NextMedications]_vars

\* The call that has been made was a call of extract_medications
Medicated == output.done /\ input.op = "extract_medications"
\* The line begins with digits and a dot
IsNumbered(line) ==
  \E k \in 1..(Len(line) - 1) :
    /\ \A i \in 1..k : CharAt(line, i) \in Digits
    /\ CharAt(line, k + 1) = "."
\* The lines of the section that are kept: trimmed, not empty, not numbered
KeptLines(lines) ==
  Select([i \in 1..Len(lines) |-> strip(lines[i])],
         {i \in 1..Len(lines) : strip(lines[i]) # "" /\ ~IsNumbered(strip(lines[i]))})

\* C15 as claimed: the medications are the matches of the dosage scan
\* followed by the items of the lines, and every entry has its numbering or
\* bullet removed and is at least 5 characters long.
C15_MedicationsFiltered ==
  Medicated =>
    \A j \in 1..Len(output.result) :
      /\ Len(output.result[j]) >= MinItemLen
      /\ Unmarked(output.result[j]) = output.result[j]

\* C15 as amended: the medications are the matches of the dosage scan, in
\* the order of the section, followed by the lines of the section, in order,
\* that are not empty once trimmed and do not begin with a numbering; the
\* list is cut to its first 15 entries.  No bullet is removed, no length is
\* asked for, and no entry goes through the exclusion test.
C15_MedicationsAsWritten ==
  Medicated =>
    output.result =
      Take(findall(dosage_pattern, JoinLines(input.candidates), Plain)
             \o KeptLines(input.candidates),
           MaxMedications)
\* A bulleted line of 5 characters is kept as written, and a numbered line
\* gives its dosed name alone
C15_Witness ==
  /\ Medicated
  /\ input.candidates = <<"- ASA", "1. Metformin 500mg">>
  /\ output.result = <<"Metformin", "- ASA">>

(***************************************************************************)
(* The handler of POST /api/summarize (src/app.py), statement by statement,*)
(* on one request.  `input` holds the request and the handler's position,  *)
(* `output` the responses it has returned.  A JSON value is a record with  *)
(* its Python type t; a body that is an object or a list holds the set of  *)
(* its keys or members and, under "medical_report", a scalar.              *)
(***************************************************************************)
Scalar(t, s, n) == [t |-> t, s |-> s, n |-> n]
Json(t, s, n, keys, report) ==
  [t |-> t, s |-> s, n |-> n, keys |-> keys, report |-> report]
JNone == Scalar("null", "", 0)
JsonOf(scalar) == Json(scalar.t, scalar.s, scalar.n, {}, JNone)
JsonObject(keys, report) == Json("dict", "", 0, keys, report)

LongDoc == "BP: " \o LongReading \o "\n"
Reports ==
  {Scalar("str", s, 0) :
     s \in {"", "   ", "\n", DocA, " " \o DocA \o "\n", DocB, DocC,
            "\n " \o DocC, LongDoc}}
  \cup {JNone, Scalar("int", "", 5)}
JsonBodies ==
  {JsonOf(JNone), JsonOf(Scalar("int", "", 0)), JsonOf(Scalar("int", "", 5)),
   JsonOf(Scalar("str", "abc", 0)), JsonOf(Scalar("str", "medical_report", 0)),
   Json("list", "", 0, {}, JNone), Json("list", "", 0, {"medical_report"}, JNone),
   JsonObject({}, JNone), JsonObject({"other"}, JNone)}
  \cup {JsonObject({"medical_report"}, r) : r \in Reports}
\* A request: its Content-Type, and a body that is empty, is no JSON text,
\* or is the text of a JSON value
Requests ==
  {[content_type |-> "application/json", body |-> "json", value |-> v] :
     v \in JsonBodies}
  \cup {[content_type |-> c, body |-> b, value |-> JsonOf(JNone)] :
          c \in {"application/json", "text/plain"}, b \in {"empty", "invalid"}}
  \cup {[content_type |-> "text/plain", body |-> "json",
         value |-> JsonObject({"medical_report"}, Scalar("str", DocC, 0))]}

Response(status, success) == [status |-> status, success |-> success]

\* A request arrives and the handler runs  data = request.get_json().
\* Flask parses the body when the Content-Type says JSON and raises
\* BadRequest when the body is empty or is no JSON text; for another
\* Content-Type it returns None or raises UnsupportedMediaType, as the
\* installed release does.  The handler's own `except Exception` catches
\* both and answers 500.
Post ==
  /\ input = NoInput
  /\ frame.pc = "idle"
  /\ \E request \in Requests :
       LET get_json ==
             IF request.content_type # "application/json"
             THEN {[raised |-> "none", data |-> JsonOf(JNone)],
                   [raised |-> "UnsupportedMediaType", data |-> JsonOf(JNone)]}
             ELSE IF request.body # "json"
             THEN {[raised |-> "BadRequest", data |-> JsonOf(JNone)]}
             ELSE {[raised |-> "none", data |-> request.value]}
       IN \E r \in get_json :
            /\ input' = [op |-> "POST", request |-> request, data |-> r.data,
                         raised |-> r.raised, text |-> "", formatted |-> FALSE,
                         pc |-> IF r.raised = "none" THEN "l23" ELSE "done"]
            /\ output' = [done |-> r.raised # "none",
                          responses |-> IF r.raised = "none" THEN <<>>
                                        ELSE <<Response(500, FALSE)>>]
  /\ UNCHANGED <<heap, frame, returned, trace, calls>>

\* Lines 23 to 36: the two tests that answer 400, and the trimming between
\* them.  `'medical_report' not in data` raises TypeError for a number,
\* data['medical_report'] for a string or a list, and .strip() raises
\* AttributeError for a value that is no string.
Validate ==
  /\ input # NoInput
  /\ input.pc = "l23"
  /\ LET data == input.data
         falsy == \/ data.t = "null"
                  \/ data.t = "int" /\ data.n = 0
                  \/ data.t = "str" /\ data.s = ""
                  \/ data.t \in {"list", "dict"} /\ data.keys = {}
         absent == IF data.t = "str" THEN ~contains("medical_report", data.s)
                   ELSE "medical_report" \notin data.keys
         Answer(raised, status, text) ==
           /\ input' = [input EXCEPT !.raised = raised, !.text = text,
                                     !.pc = IF status = 0 THEN "l39" ELSE "done"]
           /\ output' = [done |-> status # 0,
                         responses |-> IF status = 0 THEN <<>>
                                       ELSE <<Response(status, FALSE)>>]
     IN IF falsy THEN Answer("none", 400, "")
        ELSE IF data.t = "int" THEN Answer("TypeError", 500, "")
        ELSE IF absent THEN Answer("none", 400, "")
        ELSE IF data.t # "dict" THEN Answer("TypeError", 500, "")
        ELSE IF data.report.t # "str" THEN Answer("AttributeError", 500, "")
        ELSE IF strip(data.report.s) = "" THEN Answer("none", 400, "")
        ELSE Answer("none", 0, strip(data.report.s))
  /\ UNCHANGED <<heap, frame, returned, trace, calls>>

\* summary = summarizer.summarize_report(medical_text): the call
Line39 ==
  /\ input # NoInput
  /\ input.pc = "l39"
  /\ frame' = [Idle EXCEPT !.pc = "l314", !.text = input.text]
  /\ trace' = <<>>
  /\ calls' = calls + 1
  /\ input' = [input EXCEPT !.pc = "l39_called"]
  /\ UNCHANGED <<heap, returned, output>>

\* The call of line 39 ends: it returns the summary, or its exception
\* reaches the `except Exception` of line 63, which answers 500.
Line39Return ==
  /\ input # NoInput
  /\ input.pc = "l39_called"
  /\ frame.pc \in {"returned", "raised"}
  /\ IF frame.pc = "raised"
     THEN /\ input' = [input EXCEPT !.raised = "ValueError", !.pc = "done"]
          /\ output' = [done |-> TRUE, responses |-> <<Response(500, FALSE)>>]
     ELSE /\ input' = [input EXCEPT !.pc = "l42"]
          /\ output' = output
  /\ UNCHANGED <<heap, frame, returned, trace, calls>>

\* Lines 42 to 61: the result is put together, format_summary(summary)
\* among it, and returned with success True.
Line42 ==
  /\ input # NoInput
  /\ input.pc = "l42"
  /\ input' = [input EXCEPT !.formatted = TRUE, !.pc = "done"]
  /\ output' = [done |-> TRUE,
                responses |-> Append(output.responses, Response(200, TRUE))]
  /\ UNCHANGED <<heap, frame, returned, trace, calls>>

NextApi == Post \/ Validate \/ Line39 \/ Step \/ Line39Return \/ Line42

SpecApi == Init /\ [][NextApi]_vars

\* The request has no body
NoBody == input.request.body = "empty"
\* The body is a JSON object without the key "medical_report"
NoReportKey ==
  /\ input.request.body = "json"
  /\ input.request.value.t = "dict"
  /\ "medical_report" \notin input.request.value.keys
\* The body is a JSON object whose medical_report is a string
HasReport ==
  /\ input.request.body = "json"
  /\ input.request.value.t = "dict"
  /\ "medical_report" \in input.request.value.keys
  /\ input.request.value.report.t = "str"
\* ... that is empty once trimmed
BlankReport == HasReport /\ strip(input.request.value.report.s) = ""

\* C17: every POST to /api/summarize ends in one JSON response with a
\* success flag; the pipeline is called only for a medical_report that is
\* not empty once trimmed; a missing body, a missing medical_report key and
\* a blank medical_report are answered 400 with success false and without a
\* call of the pipeline; an exception is answered 500 with success false;
\* success true is answered only after summarize_report and format_summary.
C17_OneJsonResponse ==
  input # NoInput =>
    /\ Len(output.responses) <= 1
    /\ output.done <=> Len(output.responses) = 1
    /\ output.done <=> input.pc = "done"
    /\ calls > 0 =>
         /\ HasReport /\ ~BlankReport
         /\ frame.text = strip(input.request.value.report.s)
    /\ (output.done /\ (NoBody \/ NoReportKey \/ BlankReport)) =>
         /\ output.responses[1] = Response(400, FALSE)
         /\ calls = 0
    /\ (output.done /\ input.raised # "none") =>
         output.responses[1] = Response(500, FALSE)
    /\ (output.done /\ output.responses[1].success) =>
         /\ output.responses[1].status = 200
         /\ frame.pc = "returned"
         /\ Len(returned) = 1
         /\ input.formatted

====
